---- MODULE Spec2Model ----
(***************************************************************************)
(* publish-go-lambda: the deployment pipeline of main.go as a state        *)
(* machine.  One action per statement group of run / buildAndZip, the      *)
(* pure parts (short-name derivation, checkMainPackage, the runtime /      *)
(* architecture switch) as operators.                                      *)
(*                                                                         *)
(* Strings that the program indexes (the function name, package docs) are  *)
(* sequences of one-character strings.  A *string is a sequence of         *)
(* length 0 (nil) or 1.                                                    *)
(***************************************************************************)
EXTENDS Integers, Sequences, FiniteSets, TLC

VARIABLES
    pc,            \* position of the single thread of control inside run
    name,          \* flag.Arg(0)
    relaxedChecks, \* the -f flag
    shortName,     \* run's local shortName; a 0/1-length sequence (unset/set)
    ctxCancelled,  \* the NotifyContext of main has been cancelled by SIGINT
    deadline,      \* timeout carried by the ctx in use: "none" or "5m"
    cfgOutput,     \* GetFunctionConfiguration's output (NoConfig before it)
    binaryName,    \* run's local binaryName
    lambdaArch,    \* run's local lambdaArch
    tdir,          \* temporary build directory: "none", "exists", "removed"
    removeAll,     \* the deferred os.RemoveAll(tdir): "none", "ok", "failed"
    child,         \* go build subprocess: "none", "running", "killed", "exited"
    zipData,       \* bytes returned by buildAndZip: <<>> (nil) or <<entry>>
    checkCalls,    \* arguments of every checkMainPackage call, in order
    fetchCalls,    \* FunctionName of every GetFunctionConfiguration call
    updateCalls,   \* input of every UpdateFunctionCode call
    published,     \* the remote service has accepted a code update
    result,        \* what run returned: "running", "nil" or the error
    stages,        \* pipeline stages in the order they were started
    succeeded,     \* pipeline stages that have completed without error
    intrDuringBuild, \* SIGINT arrived while cmd.Run was waiting for go build
    tree,          \* analyzer harness: the source directory
    lambdaName,    \* analyzer harness: the lambdaName argument
    strictRes,     \* analyzer harness: checkMainPackage(dir, lambdaName, true)
    relaxedRes     \* analyzer harness: checkMainPackage(dir, lambdaName, false)

runVars == <<pc, name, relaxedChecks, shortName, ctxCancelled, deadline,
             cfgOutput, binaryName, lambdaArch, tdir, removeAll, child, zipData,
             checkCalls, fetchCalls, updateCalls, published, result, stages,
             succeeded, intrDuringBuild>>

harnessVars == <<tree, lambdaName, strictRes, relaxedRes>>

vars == <<runVars, harnessVars>>

----------------------------------------------------------------------------
(* Bounds of the model *)

\* longest function identifier given on the command line
MaxLen == 3

\* longest package documentation text
MaxDocLen == 2

\* most files in package main
MaxFiles == 2

\* most entries in the Architectures list of a configuration
MaxArchs == 2

----------------------------------------------------------------------------
(* Strings *)

\* characters of identifiers: a word character, a non-word character, colon
NameChars == {"a", "-", ":"}

\* characters of documentation text: a word character and a non-word one
DocChars == {"a", "-"}

SeqsUpTo(S, n) == UNION {[1..k -> S] : k \in 0..n}

\* the subsets of S with at most n elements
RECURSIVE SubsetsUpTo(_, _)
SubsetsUpTo(S, n) ==
    IF n = 0 THEN {{}}
    ELSE LET P == SubsetsUpTo(S, n - 1)
         IN  P \cup {p \cup {x} : p \in P, x \in S}

Names == SeqsUpTo(NameChars, MaxLen)

Docs == SeqsUpTo(DocChars, MaxDocLen)

\* strings.LastIndexByte(s, c): 0-based index of the last c in s, -1 if none
LastIndexByte(s, c) ==
    LET hits == {i \in 1..Len(s) : s[i] = c}
    IN  IF hits = {} THEN -1
        ELSE (CHOOSE i \in hits : \A j \in hits : j <= i) - 1

\* strings.IndexByte: first occurrence (what a first-colon split would use)
IndexByte(s, c) ==
    LET hits == {i \in 1..Len(s) : s[i] = c}
    IN  IF hits = {} THEN -1
        ELSE (CHOOSE i \in hits : \A j \in hits : i <= j) - 1

\* the Go slice expression s[from:], from a 0-based index
SliceFrom(s, from) == SubSeq(s, from + 1, Len(s))

ShortNameFirstColon(n) == SliceFrom(n, IndexByte(n, ":") + 1)

\* shortName := name[strings.LastIndexByte(name, ':')+1:]
ShortName(n) == SliceFrom(n, LastIndexByte(n, ":") + 1)

----------------------------------------------------------------------------
(* checkMainPackage *)

awsDependency == "github.com/aws/aws-lambda-go/lambda"

\* the import lists a file may have: without and with the dependency
ImportLists == {{"fmt"}, {"fmt", awsDependency}}

\* f.Doc == nil
NoDoc == <<>>

\* one parsed file: doc is <<>> (no doc comment) or <<text>>
Files == [doc : {NoDoc} \cup {<<d>> : d \in Docs}, imports : ImportLists]

\* A source directory as parser.ParseDir sees it.  syntaxErr says where the
\* first syntax error is: "none", "imports" (package clause or imports, seen
\* in every parser mode) or "body" (after the imports, seen only when the
\* parser does not stop at the imports).
Trees ==
    { t \in [syntaxErr : {"none", "imports", "body"},
             hasMain : BOOLEAN,
             files : SubsetsUpTo(Files, MaxFiles)] :
        t.hasMain <=> t.files # {} }

\* regexp \w on one character
IsWordChar(c) == c = "a"

\* regexp \b between positions p and p+1 of s (p in 0..Len(s))
WordBoundary(s, p) ==
    LET left  == p >= 1 /\ IsWordChar(s[p])
        right == p + 1 <= Len(s) /\ IsWordChar(s[p + 1])
    IN  left # right

\* regexp.MustCompile(`\b` + regexp.QuoteMeta(n) + `\b`).MatchString(text)
NameRegexMatch(n, text) ==
    \E i \in 1..(Len(text) - Len(n) + 1) :
        /\ SubSeq(text, i, i + Len(n) - 1) = n
        /\ WordBoundary(text, i - 1)
        /\ WordBoundary(text, i + Len(n) - 1)

\* parser.ParseDir's error under the mode the strictness selects
ParseDirFails(t, strict) ==
    \/ t.syntaxErr = "imports"
    \/ t.syntaxErr = "body" /\ strict

\* the loop over pkg.Files: mentionsLambdaName
MentionsLambdaName(t, n) ==
    \E f \in t.files : f.doc # NoDoc /\ NameRegexMatch(n, f.doc[1])

\* the loop over pkg.Files: hasLambdaImport
HasLambdaImport(t) == \E f \in t.files : awsDependency \in f.imports

ErrParse   == "parse error"
ErrNoMain  == "cannot find main package"
ErrNoDoc   == "package docs does not mention name (run with -f to skip this check)"
ErrNoImport == "package does not import dependency (run with -f to skip this check)"
Panic      == "panic: checkMainPackage called with an empty lambdaName"

checkMainPackageImportFirst(t, n, strict) ==
    IF n = <<>> THEN Panic
    ELSE IF ParseDirFails(t, strict) THEN ErrParse
    ELSE IF ~t.hasMain THEN ErrNoMain
    ELSE IF ~strict THEN "nil"
    ELSE IF ~HasLambdaImport(t) THEN ErrNoImport
    ELSE IF ~MentionsLambdaName(t, n) THEN ErrNoDoc
    ELSE "nil"

\* checkMainPackage(dir, lambdaName, strict): "nil", an error, or the panic
checkMainPackage(t, n, strict) ==
    IF n = <<>> THEN Panic
    ELSE IF ParseDirFails(t, strict) THEN ErrParse
    ELSE IF ~t.hasMain THEN ErrNoMain
    ELSE IF ~strict THEN "nil"
    ELSE IF ~MentionsLambdaName(t, n) THEN ErrNoDoc
    ELSE IF ~HasLambdaImport(t) THEN ErrNoImport
    ELSE "nil"

----------------------------------------------------------------------------
(* The runtime / architecture switch of run *)

goAmd64 == "amd64"
goArm64 == "arm64"

PackageTypeZip == "Zip"
PackageTypeImage == "Image"
RuntimeGo1x == "go1.x"
RuntimeProvidedal2 == "provided.al2"
RuntimeOther == "python3.9"
ArchitectureX8664 == "x86_64"
ArchitectureArm64 == "arm64"
ArchitectureOther == "riscv64"

PackageTypes == {PackageTypeZip, PackageTypeImage}
Runtimes == {RuntimeGo1x, RuntimeProvidedal2, RuntimeOther}
Architectures == {ArchitectureX8664, ArchitectureArm64, ArchitectureOther}

\* *string Handler: nil, pointer to "", pointer to a name
Handlers == {<<>>, <<"">>, <<"main">>}

\* *string RevisionId of the fetched configuration: nil or a token
RevisionIds == {<<>>, <<"r1">>, <<"r2">>}

\* the fields of GetFunctionConfigurationOutput that run reads
Configs == [PackageType : PackageTypes,
            Architectures : SeqsUpTo(Architectures, MaxArchs),
            Runtime : Runtimes,
            Handler : Handlers,
            RevisionId : RevisionIds]

\* cfgOutput before the call has returned
NoConfig == [PackageType |-> "", Architectures |-> <<>>, Runtime |-> "",
             Handler |-> <<>>, RevisionId |-> <<>>]

ErrPackageType == "only ZIP type packaged Lambdas supported"
ErrArchCount   == "expected single supported architecture"
ErrNoHandler   == "lambda configuration has empty handler name"
ErrGo1xArch    == "go1.x runtime only supports x86_64 arch"
ErrProvidedArch == "running Go on provided.al2 runtime only supports either x86_64 or arm64 arch"
ErrRuntime     == "lambda configured with unsupported runtime"

Target(e, b, a) == [err |-> e, binaryName |-> b, lambdaArch |-> a]

\* a resolver that tests the architecture before the handler
ResolveArchFirst(cfg) ==
    IF cfg.PackageType # PackageTypeZip THEN Target(ErrPackageType, "", "")
    ELSE IF Len(cfg.Architectures) # 1 THEN Target(ErrArchCount, "", "")
    ELSE IF cfg.Runtime = RuntimeGo1x THEN
        IF cfg.Architectures[1] # ArchitectureX8664
            THEN Target(ErrGo1xArch, "", "")
        ELSE IF cfg.Handler = <<>> \/ cfg.Handler = <<"">>
            THEN Target(ErrNoHandler, "", "")
        ELSE Target("nil", cfg.Handler[1], goAmd64)
    ELSE IF cfg.Runtime = RuntimeProvidedal2 THEN
        IF cfg.Architectures[1] = ArchitectureX8664
            THEN Target("nil", "bootstrap", goAmd64)
        ELSE IF cfg.Architectures[1] = ArchitectureArm64
            THEN Target("nil", "bootstrap", goArm64)
        ELSE Target(ErrProvidedArch, "bootstrap", "")
    ELSE Target(ErrRuntime, "", "")

\* a resolver whose go1.x case takes the architecture as configured
ResolveGo1xAnyArch(cfg) ==
    IF cfg.PackageType # PackageTypeZip THEN Target(ErrPackageType, "", "")
    ELSE IF Len(cfg.Architectures) # 1 THEN Target(ErrArchCount, "", "")
    ELSE IF cfg.Runtime = RuntimeGo1x THEN
        IF cfg.Handler = <<>> \/ cfg.Handler = <<"">>
            THEN Target(ErrNoHandler, "", "")
        ELSE Target("nil", cfg.Handler[1],
                    IF cfg.Architectures[1] = ArchitectureX8664
                    THEN goAmd64 ELSE cfg.Architectures[1])
    ELSE IF cfg.Runtime = RuntimeProvidedal2 THEN
        IF cfg.Architectures[1] = ArchitectureX8664
            THEN Target("nil", "bootstrap", goAmd64)
        ELSE IF cfg.Architectures[1] = ArchitectureArm64
            THEN Target("nil", "bootstrap", goArm64)
        ELSE Target(ErrProvidedArch, "bootstrap", "")
    ELSE Target(ErrRuntime, "", "")

\* lines 64-101 of run: the error returned ("nil" when the build goes ahead)
\* and the locals binaryName, lambdaArch as they stand at that point
Resolve(cfg) ==
    IF cfg.PackageType # PackageTypeZip THEN Target(ErrPackageType, "", "")
    ELSE IF Len(cfg.Architectures) # 1 THEN Target(ErrArchCount, "", "")
    ELSE IF cfg.Runtime = RuntimeGo1x THEN
        IF cfg.Handler = <<>> \/ cfg.Handler = <<"">>
            THEN Target(ErrNoHandler, "", "")
        ELSE IF cfg.Architectures[1] # ArchitectureX8664
            THEN Target(ErrGo1xArch, "", "")
        ELSE Target("nil", cfg.Handler[1], goAmd64)
    ELSE IF cfg.Runtime = RuntimeProvidedal2 THEN
        IF cfg.Architectures[1] = ArchitectureX8664
            THEN Target("nil", "bootstrap", goAmd64)
        ELSE IF cfg.Architectures[1] = ArchitectureArm64
            THEN Target("nil", "bootstrap", goArm64)
        ELSE Target(ErrProvidedArch, "bootstrap", "")
    ELSE Target(ErrRuntime, "", "")

----------------------------------------------------------------------------
(* Initial states *)

\* harness variables while the pipeline runs, pipeline variables while the
\* analyzer harness runs
IdleTree == [syntaxErr |-> "none", hasMain |-> FALSE, files |-> {}]

HarnessIdle ==
    /\ tree = IdleTree
    /\ lambdaName = <<>>
    /\ strictRes = "idle"
    /\ relaxedRes = "idle"

RunStart(p, n, f) ==
    /\ pc = p
    /\ name = n
    /\ relaxedChecks = f
    /\ shortName = <<>>
    /\ ctxCancelled = FALSE
    /\ deadline = "none"
    /\ cfgOutput = NoConfig
    /\ binaryName = ""
    /\ lambdaArch = ""
    /\ tdir = "none"
    /\ removeAll = "none"
    /\ child = "none"
    /\ zipData = <<>>
    /\ checkCalls = <<>>
    /\ fetchCalls = <<>>
    /\ updateCalls = <<>>
    /\ published = FALSE
    /\ result = "running"
    /\ stages = <<>>
    /\ succeeded = {}
    /\ intrDuringBuild = FALSE

\* main: flags parsed, NotifyContext installed, run about to be called
Init ==
    /\ \E n \in Names, f \in BOOLEAN : RunStart("start", n, f)
    /\ HarnessIdle

----------------------------------------------------------------------------
(* run, up to the call of buildAndZip *)

ErrNameEmpty == "name must be set"
ErrLoadConfig == "LoadDefaultConfig failed"
ErrGetConfig == "GetFunctionConfiguration: operation error"
ErrCanceled == "context canceled"
ErrDeadline == "context deadline exceeded"

\* a return statement of run
Return(e) ==
    /\ pc' = "done"
    /\ result' = e

\* lines 45-48: the empty-name test and the short-name derivation
Normalize ==
    /\ pc = "start"
    /\ stages' = Append(stages, "normalize")
    /\ IF name = <<>>
       THEN /\ Return(ErrNameEmpty)
            /\ UNCHANGED <<shortName, succeeded>>
       ELSE /\ shortName' = <<ShortName(name)>>
            /\ succeeded' = succeeded \cup {"normalize"}
            /\ pc' = "check"
            /\ UNCHANGED result
    /\ UNCHANGED <<name, relaxedChecks, ctxCancelled, deadline, cfgOutput,
                   binaryName, lambdaArch, tdir, removeAll, child, zipData, checkCalls,
                   fetchCalls, updateCalls, published, intrDuringBuild>>
    /\ UNCHANGED harnessVars

\* the analyzer's verdict does not stop the run
CheckMainIgnoringError ==
    /\ pc = "check"
    /\ stages' = Append(stages, "analyze")
    /\ checkCalls' = Append(checkCalls, shortName[1])
    /\ \E t \in Trees :
        LET r == checkMainPackage(t, shortName[1], ~relaxedChecks)
        IN  /\ pc' = IF r = Panic THEN "panicked" ELSE "loadcfg"
            /\ result' = IF r = Panic THEN r ELSE result
            /\ succeeded' = IF r = "nil" THEN succeeded \cup {"analyze"}
                            ELSE succeeded
    /\ UNCHANGED <<name, relaxedChecks, shortName, ctxCancelled, deadline,
                   cfgOutput, binaryName, lambdaArch, tdir, removeAll, child, zipData,
                   fetchCalls, updateCalls, published, intrDuringBuild>>
    /\ UNCHANGED harnessVars

\* lines 49-51: checkMainPackage(".", shortName, !relaxedChecks) on whatever
\* the current directory holds
CheckMain ==
    /\ pc = "check"
    /\ stages' = Append(stages, "analyze")
    /\ checkCalls' = Append(checkCalls, shortName[1])
    /\ \E t \in Trees :
        LET r == checkMainPackage(t, shortName[1], ~relaxedChecks)
        IN  IF r = Panic
            THEN /\ pc' = "panicked"
                 /\ result' = r
                 /\ UNCHANGED succeeded
            ELSE IF r # "nil"
            THEN /\ Return(r)
                 /\ UNCHANGED succeeded
            ELSE /\ pc' = "loadcfg"
                 /\ succeeded' = succeeded \cup {"analyze"}
                 /\ UNCHANGED result
    /\ UNCHANGED <<name, relaxedChecks, shortName, ctxCancelled, deadline,
                   cfgOutput, binaryName, lambdaArch, tdir, removeAll, child, zipData,
                   fetchCalls, updateCalls, published, intrDuringBuild>>
    /\ UNCHANGED harnessVars

\* lines 52-56: config.LoadDefaultConfig(ctx), lambda.NewFromConfig
LoadConfig ==
    /\ pc = "loadcfg"
    /\ stages' = Append(stages, "fetch")
    /\ \E ok \in BOOLEAN :
        IF ok THEN pc' = "fetch" /\ UNCHANGED result
        ELSE Return(ErrLoadConfig)
    /\ UNCHANGED <<name, relaxedChecks, shortName, ctxCancelled, deadline,
                   cfgOutput, binaryName, lambdaArch, tdir, removeAll, child, zipData,
                   checkCalls, fetchCalls, updateCalls, published, succeeded,
                   intrDuringBuild>>
    /\ UNCHANGED harnessVars

\* lines 57-60: svc.GetFunctionConfiguration(ctx, {FunctionName: &name, ...});
\* a context cancelled before the call fails it without a request
FetchCall ==
    /\ pc = "fetch"
    /\ fetchCalls' = Append(fetchCalls, name)
    /\ IF ctxCancelled
       THEN Return(ErrGetConfig)
       ELSE pc' = "fetchWait" /\ UNCHANGED result
    /\ UNCHANGED <<name, relaxedChecks, shortName, ctxCancelled, deadline,
                   cfgOutput, binaryName, lambdaArch, tdir, removeAll, child, zipData,
                   checkCalls, updateCalls, published, stages, succeeded,
                   intrDuringBuild>>
    /\ UNCHANGED harnessVars

\* lines 57-63: the remote service answers with a configuration or an error
FetchRespond ==
    /\ pc = "fetchWait"
    /\ \/ \E cfg \in Configs :
            /\ cfgOutput' = cfg
            /\ pc' = "resolve"
            /\ succeeded' = succeeded \cup {"fetch"}
            /\ UNCHANGED result
       \/ /\ Return(ErrGetConfig)
          /\ UNCHANGED <<cfgOutput, succeeded>>
    /\ UNCHANGED <<name, relaxedChecks, shortName, ctxCancelled, deadline,
                   binaryName, lambdaArch, tdir, removeAll, child, zipData, checkCalls,
                   fetchCalls, updateCalls, published, stages,
                   intrDuringBuild>>
    /\ UNCHANGED harnessVars

\* lines 57-63: the wait ends because ctx was cancelled by the signal
FetchCancelled ==
    /\ pc = "fetchWait"
    /\ ctxCancelled
    /\ Return(ErrGetConfig)
    /\ UNCHANGED <<name, relaxedChecks, shortName, ctxCancelled, deadline,
                   cfgOutput, binaryName, lambdaArch, tdir, removeAll, child, zipData,
                   checkCalls, fetchCalls, updateCalls, published, stages,
                   succeeded, intrDuringBuild>>
    /\ UNCHANGED harnessVars

\* lines 64-101: package type, architecture count, runtime switch
ResolveStep ==
    /\ pc = "resolve"
    /\ stages' = Append(stages, "resolve")
    /\ LET target == Resolve(cfgOutput)
       IN  /\ binaryName' = target.binaryName
           /\ lambdaArch' = target.lambdaArch
           /\ IF target.err # "nil"
              THEN Return(target.err) /\ UNCHANGED succeeded
              ELSE /\ pc' = "mkdirTemp"
                   /\ succeeded' = succeeded \cup {"resolve"}
                   /\ UNCHANGED result
    /\ UNCHANGED <<name, relaxedChecks, shortName, ctxCancelled, deadline,
                   cfgOutput, tdir, removeAll, child, zipData, checkCalls, fetchCalls,
                   updateCalls, published, intrDuringBuild>>
    /\ UNCHANGED harnessVars

----------------------------------------------------------------------------
(* buildAndZip *)

ErrMkdirTemp == "MkdirTemp failed"
ErrStart == "exec: go: executable file not found"
ErrSignal == "signal: interrupt"
ErrExit == "exit status 1"
ErrOpen == "open failed"
ErrStat == "stat failed"
ErrHeader == "FileInfoHeader failed"
ErrCreateHeader == "CreateHeader failed"
ErrCopy == "io.Copy failed"
ErrClose == "zip close failed"
ErrUpdate == "UpdateFunctionCode: operation error"

buildUnchanged == <<name, relaxedChecks, shortName, ctxCancelled, deadline,
                    cfgOutput, binaryName, lambdaArch, checkCalls, fetchCalls,
                    updateCalls, published, intrDuringBuild>>

\* line 122: the deferred os.RemoveAll(tdir) runs when buildAndZip returns.
\* Its error is discarded: when the removal fails the directory stays and
\* nothing else changes.
RemoveAll ==
    \E removed \in BOOLEAN :
        /\ removeAll' = IF removed THEN "ok" ELSE "failed"
        /\ tdir' = IF removed THEN "removed" ELSE tdir

\* "return nil, err" inside buildAndZip after the defer of line 122 is set:
\* the deferred removal runs, run returns the error (lines 103-105)
BuildReturn(e) ==
    /\ Return(e)
    /\ RemoveAll

\* lines 118-122: os.MkdirTemp and the deferred os.RemoveAll
MkdirTemp ==
    /\ pc = "mkdirTemp"
    /\ stages' = Append(stages, "compile")
    /\ \E ok \in BOOLEAN :
        IF ok THEN /\ tdir' = "exists"
                   /\ UNCHANGED removeAll
                   /\ pc' = "cmdStart"
                   /\ UNCHANGED result
        ELSE /\ Return(ErrMkdirTemp)
             /\ UNCHANGED <<tdir, removeAll>>
    /\ UNCHANGED <<child, zipData, succeeded>>
    /\ UNCHANGED buildUnchanged
    /\ UNCHANGED harnessVars

\* lines 123-130: exec.Command("go", "build", ...) and the start of cmd.Run
CmdStart ==
    /\ pc = "cmdStart"
    /\ \E ok \in BOOLEAN :
        IF ok THEN /\ child' = "running"
                   /\ pc' = "buildWait"
                   /\ UNCHANGED <<result, tdir, removeAll>>
        ELSE /\ BuildReturn(ErrStart)
             /\ UNCHANGED child
    /\ UNCHANGED <<zipData, stages, succeeded>>
    /\ UNCHANGED buildUnchanged
    /\ UNCHANGED harnessVars

\* a build failure is not looked at
CmdWaitIgnoringError ==
    /\ pc = "buildWait"
    /\ child' = IF child = "killed" THEN child ELSE "exited"
    /\ \E ok \in BOOLEAN :
        /\ pc' = "open"
        /\ succeeded' = IF ok /\ child # "killed"
                        THEN succeeded \cup {"compile"} ELSE succeeded
    /\ UNCHANGED <<result, tdir, removeAll, zipData, stages>>
    /\ UNCHANGED buildUnchanged
    /\ UNCHANGED harnessVars

\* lines 130-132: cmd.Run returns when the subprocess has ended, by itself
\* or by a signal it received
CmdWait ==
    /\ pc = "buildWait"
    /\ IF child = "killed"
       THEN /\ BuildReturn(ErrSignal)
            /\ UNCHANGED <<child, succeeded>>
       ELSE /\ child' = "exited"
            /\ \E ok \in BOOLEAN :
                IF ok THEN /\ pc' = "open"
                           /\ succeeded' = succeeded \cup {"compile"}
                           /\ UNCHANGED <<result, tdir, removeAll>>
                ELSE /\ BuildReturn(ErrExit)
                     /\ UNCHANGED succeeded
    /\ UNCHANGED <<zipData, stages>>
    /\ UNCHANGED buildUnchanged
    /\ UNCHANGED harnessVars

\* one fallible statement of the packaging half of buildAndZip; deferred
\* says whether the deferred os.RemoveAll runs on its error return
PackStep(from, to, e, deferred) ==
    /\ pc = from
    /\ \E ok \in BOOLEAN :
        IF ok THEN pc' = to /\ UNCHANGED <<result, tdir, removeAll>>
        ELSE IF deferred THEN BuildReturn(e)
        ELSE Return(e) /\ UNCHANGED <<tdir, removeAll>>
    /\ UNCHANGED <<child, zipData, succeeded>>
    /\ UNCHANGED buildUnchanged
    /\ UNCHANGED harnessVars

\* the error return of os.Open skips the removal of the directory
OpenBinNoCleanup ==
    /\ stages' = Append(stages, "package")
    /\ PackStep("open", "stat", ErrOpen, FALSE)

\* lines 133-137: os.Open(binPath)
OpenBin ==
    /\ stages' = Append(stages, "package")
    /\ PackStep("open", "stat", ErrOpen, TRUE)

\* lines 138-141: f.Stat()
StatBin ==
    /\ PackStep("stat", "header", ErrStat, TRUE)
    /\ UNCHANGED stages

\* lines 142-148: zip.FileInfoHeader and the header fields
FileInfoHeader ==
    /\ PackStep("header", "createHeader", ErrHeader, TRUE)
    /\ UNCHANGED stages

\* lines 150-158: zip.NewWriter, RegisterCompressor, zw.CreateHeader
CreateHeader ==
    /\ PackStep("createHeader", "copy", ErrCreateHeader, TRUE)
    /\ UNCHANGED stages

\* lines 159-161: io.Copy(w, f)
CopyData ==
    /\ PackStep("copy", "zclose", ErrCopy, TRUE)
    /\ UNCHANGED stages

\* the single entry of the archive, as the header of lines 146-148 sets it
ZipEntry(n) == [Name |-> n, Mode |-> "0775", Method |-> "Deflate"]

\* lines 162-165 and 102-105: zw.Close, return buf.Bytes(); the deferred
\* f.Close and os.RemoveAll run before run gets zipData
CloseZip ==
    /\ pc = "zclose"
    /\ \E ok \in BOOLEAN :
        IF ok THEN /\ zipData' = <<ZipEntry(binaryName)>>
                   /\ RemoveAll
                   /\ succeeded' = succeeded \cup {"package"}
                   /\ pc' = "update"
                   /\ UNCHANGED result
        ELSE /\ BuildReturn(ErrClose)
             /\ UNCHANGED <<zipData, succeeded>>
    /\ UNCHANGED <<child, stages>>
    /\ UNCHANGED buildUnchanged
    /\ UNCHANGED harnessVars

----------------------------------------------------------------------------
(* run, the update call *)

\* lines 108-113: the input of UpdateFunctionCode; RevisionId is the pointer
\* of the configuration fetched at lines 57-60, passed on as it is
UpdateInput ==
    [FunctionName |-> name,
     RevisionId |-> cfgOutput.RevisionId,
     ZipFile |-> zipData,
     Publish |-> TRUE]

\* lines 106-113: context.WithTimeout(ctx, 5*time.Minute) and the call of
\* svc.UpdateFunctionCode; a context cancelled before the call fails it
\* without a request
UpdateCall ==
    /\ pc = "update"
    /\ deadline' = "5m"
    /\ stages' = Append(stages, "update")
    /\ updateCalls' = Append(updateCalls, UpdateInput)
    /\ IF ctxCancelled
       THEN Return(ErrCanceled)
       ELSE pc' = "updateWait" /\ UNCHANGED result
    /\ UNCHANGED <<name, relaxedChecks, shortName, ctxCancelled, cfgOutput,
                   binaryName, lambdaArch, tdir, removeAll, child, zipData, checkCalls,
                   fetchCalls, published, succeeded, intrDuringBuild>>
    /\ UNCHANGED harnessVars

updateUnchanged == <<name, relaxedChecks, shortName, ctxCancelled, deadline,
                     cfgOutput, binaryName, lambdaArch, tdir, removeAll, child, zipData,
                     checkCalls, fetchCalls, updateCalls, stages,
                     intrDuringBuild>>

\* lines 108-114: the remote service answers
UpdateRespond ==
    /\ pc = "updateWait"
    /\ \/ /\ published' = TRUE
          /\ succeeded' = succeeded \cup {"update"}
          /\ Return("nil")
       \/ /\ Return(ErrUpdate)
          /\ UNCHANGED <<published, succeeded>>
    /\ UNCHANGED updateUnchanged
    /\ UNCHANGED harnessVars

\* lines 106-114: the 5 minute deadline passes before an answer; the request
\* may or may not have been applied by the service
UpdateTimeout ==
    /\ pc = "updateWait"
    /\ deadline = "5m"
    /\ published' \in BOOLEAN
    /\ Return(ErrDeadline)
    /\ UNCHANGED succeeded
    /\ UNCHANGED updateUnchanged
    /\ UNCHANGED harnessVars

\* lines 108-114: the wait ends because the signal cancelled the parent ctx
UpdateCancelled ==
    /\ pc = "updateWait"
    /\ ctxCancelled
    /\ published' \in BOOLEAN
    /\ Return(ErrCanceled)
    /\ UNCHANGED succeeded
    /\ UNCHANGED updateUnchanged
    /\ UNCHANGED harnessVars

----------------------------------------------------------------------------
(* main: the interrupt signal *)

Running == pc \notin {"done", "panicked", "idle"}

\* line 37: signal.NotifyContext(context.Background(), os.Interrupt).  The
\* process does not die of SIGINT any more; ctx is cancelled.  buildAndZip
\* starts go build with exec.Command, without ctx, so the subprocess ends
\* only if the signal was sent to it as well (a terminal's Ctrl-C signals the
\* whole foreground process group, kill -INT <pid> the process alone).
Interrupt ==
    /\ Running
    /\ ctxCancelled' = TRUE
    /\ intrDuringBuild' = (intrDuringBuild \/ pc = "buildWait")
    /\ \E toGroup \in BOOLEAN :
        child' = IF toGroup /\ child = "running" THEN "killed" ELSE child
    /\ UNCHANGED <<pc, name, relaxedChecks, shortName, deadline, cfgOutput,
                   binaryName, lambdaArch, tdir, removeAll, zipData, checkCalls,
                   fetchCalls, updateCalls, published, result, stages,
                   succeeded>>
    /\ UNCHANGED harnessVars

Next ==
    \/ Normalize
    \/ CheckMain
    \/ LoadConfig
    \/ FetchCall
    \/ FetchRespond
    \/ FetchCancelled
    \/ ResolveStep
    \/ MkdirTemp
    \/ CmdStart
    \/ CmdWait
    \/ OpenBin
    \/ StatBin
    \/ FileInfoHeader
    \/ CreateHeader
    \/ CopyData
    \/ CloseZip
    \/ UpdateCall
    \/ UpdateRespond
    \/ UpdateTimeout
    \/ UpdateCancelled
    \/ Interrupt

Spec == Init /\ [][Next]_vars

----------------------------------------------------------------------------
(* checkMainPackage on its own: both strictness settings on one directory *)

InitAnalyzer ==
    /\ RunStart("idle", <<>>, FALSE)
    /\ tree \in Trees
    /\ lambdaName \in SeqsUpTo(DocChars, MaxDocLen)
    /\ strictRes = "pending"
    /\ relaxedRes = "pending"

AnalyzeStrict ==
    /\ strictRes = "pending"
    /\ strictRes' = checkMainPackage(tree, lambdaName, TRUE)
    /\ UNCHANGED <<tree, lambdaName, relaxedRes>>
    /\ UNCHANGED runVars

AnalyzeRelaxed ==
    /\ relaxedRes = "pending"
    /\ relaxedRes' = checkMainPackage(tree, lambdaName, FALSE)
    /\ UNCHANGED <<tree, lambdaName, strictRes>>
    /\ UNCHANGED runVars

NextAnalyzer == AnalyzeStrict \/ AnalyzeRelaxed

SpecAnalyzer == InitAnalyzer /\ [][NextAnalyzer]_vars

----------------------------------------------------------------------------
(* Vocabulary of the properties *)

Started(stage) == \E i \in 1..Len(stages) : stages[i] = stage

IsPrefix(s, t) == Len(s) <= Len(t) /\ \A i \in 1..Len(s) : s[i] = t[i]

\* the order of the stages in run
PipelineOrder ==
    <<"normalize", "analyze", "fetch", "resolve", "compile", "package", "update">>

\* the order with the configuration fetch ahead of the analyzer
FetchFirstOrder ==
    <<"normalize", "fetch", "analyze", "resolve", "compile", "package", "update">>

\* every stage of s but the last one has succeeded
EarlierSucceeded == \A i \in 1..(Len(stages) - 1) : stages[i] \in succeeded

BeforeUpdate == {"normalize", "analyze", "fetch", "resolve", "compile", "package"}

Failed == pc = "done" /\ result # "nil"

\* a configuration the resolver gets past its two precondition tests with
SingleArchZip ==
    /\ Started("resolve")
    /\ cfgOutput.PackageType = PackageTypeZip
    /\ Len(cfgOutput.Architectures) = 1

HandlerEmpty == cfgOutput.Handler = <<>> \/ cfgOutput.Handler = <<"">>

Proceeds(b, a) ==
    /\ "resolve" \in succeeded
    /\ binaryName = b
    /\ lambdaArch = a

Rejected ==
    /\ Failed
    /\ "resolve" \notin succeeded
    /\ ~Started("compile")
    /\ tdir = "none"
    /\ child = "none"

----------------------------------------------------------------------------
(* Properties *)

\* C1: the resolver is total and follows the decision table: with package
\* type zip and one architecture, go1.x/x86_64 with a non-empty handler
\* builds (handler, amd64), provided.al2/x86_64 builds ("bootstrap", amd64),
\* provided.al2/arm64 builds ("bootstrap", arm64), every other pair returns
\* an error without building; whenever the build is invoked binaryName is
\* non-empty and GOARCH is amd64 or arm64.
C1_ResolverTable ==
    /\ SingleArchZip =>
        LET rt   == cfgOutput.Runtime
            arch == cfgOutput.Architectures[1]
        IN  IF rt = RuntimeGo1x /\ arch = ArchitectureX8664 /\ ~HandlerEmpty
                THEN Proceeds(cfgOutput.Handler[1], "amd64")
            ELSE IF rt = RuntimeProvidedal2 /\ arch = ArchitectureX8664
                THEN Proceeds("bootstrap", "amd64")
            ELSE IF rt = RuntimeProvidedal2 /\ arch = ArchitectureArm64
                THEN Proceeds("bootstrap", "arm64")
            ELSE Rejected
    /\ Started("compile") =>
        /\ binaryName # ""
        /\ lambdaArch \in {"amd64", "arm64"}

\* C1 witness: go build has been started for a go1.x function under its
\* handler name, and for nothing else could it have been
C1_Witness ==
    /\ SingleArchZip
    /\ cfgOutput.Runtime = RuntimeGo1x
    /\ child = "running"
    /\ binaryName = "main"
    /\ lambdaArch = "amd64"

\* C2 as stated: stages run in the order normalize, fetch, analyze, resolve,
\* compile, package, update; the analyzer runs only after the fetch succeeded
C2_FetchBeforeAnalyzer ==
    /\ IsPrefix(stages, FetchFirstOrder)
    /\ EarlierSucceeded
    /\ checkCalls # <<>> => "fetch" \in succeeded

\* C2 amended: stages run strictly in the order normalize, analyze, fetch,
\* resolve, compile, package, update; the fetch is made only after the
\* analyzer succeeded and a stage starts only after every earlier one
\* succeeded
C2_StageOrder ==
    /\ IsPrefix(stages, PipelineOrder)
    /\ EarlierSucceeded
    /\ fetchCalls # <<>> => "analyze" \in succeeded

\* C2 witness: a run that went through all seven stages
C2_Witness ==
    /\ stages = PipelineOrder
    /\ pc = "done"
    /\ result = "nil"

\* C3: UpdateFunctionCode is called at most once and only after every
\* earlier stage has succeeded; a run in which one of them failed returns an
\* error with no update call made and nothing published; no stage runs twice
C3_NothingPublishedOnFailure ==
    /\ Len(updateCalls) <= 1
    /\ updateCalls # <<>> => BeforeUpdate \subseteq succeeded
    /\ published => updateCalls # <<>>
    /\ (pc = "done" /\ ~(BeforeUpdate \subseteq succeeded)) =>
        /\ result \notin {"nil", "running"}
        /\ updateCalls = <<>>
        /\ ~published
    /\ \A i, j \in 1..Len(stages) : stages[i] = stages[j] => i = j

\* C3 witness: the compiler failed, run has returned its error, no update
C3_Witness ==
    /\ pc = "done"
    /\ result = ErrExit
    /\ Started("compile")
    /\ "compile" \notin succeeded
    /\ updateCalls = <<>>

\* C4: once an interrupt has arrived while the compiler subprocess was
\* running, the subprocess does not outlive cmd.Run, the temporary directory
\* is removed by the time run returns (unless os.RemoveAll itself failed),
\* no archive is produced and no update call is made
C4_InterruptStopsBuild ==
    intrDuringBuild =>
        /\ pc # "buildWait" => child # "running"
        /\ pc = "done" => tdir = "removed" \/ removeAll = "failed"
        /\ zipData = <<>>
        /\ updateCalls = <<>>

\* buildAndZip has returned to run after creating its directory
BuildAndZipReturned ==
    /\ Started("compile")
    /\ result # ErrMkdirTemp
    /\ pc \in {"update", "updateWait", "done"}

\* C5 as stated: whenever buildAndZip has returned the directory it created
\* is gone; it is gone before the update call is made and before run returns
C5_TempDirRemoved ==
    /\ (Started("compile") /\ pc \in {"update", "updateWait", "done"}) =>
        tdir # "exists"
    /\ updateCalls # <<>> => tdir = "removed"
    /\ pc \in {"done", "panicked"} => tdir # "exists"

\* C5 amended: on every exit path of buildAndZip after the directory was
\* created os.RemoveAll has been called on it by the time buildAndZip has
\* returned, so before the update call and before run returns; the directory
\* is gone whenever that call succeeded and is left only when it failed; the
\* removal is never run while buildAndZip is still at work or when no
\* directory was created
C5_RemovalAttempted ==
    /\ BuildAndZipReturned =>
        /\ removeAll \in {"ok", "failed"}
        /\ removeAll = "ok" <=> tdir = "removed"
        /\ removeAll = "failed" <=> tdir = "exists"
    /\ ~BuildAndZipReturned =>
        /\ removeAll = "none"
        /\ tdir \in {"none", "exists"}
    /\ updateCalls # <<>> => BuildAndZipReturned
    /\ tdir = "none" => ~("compile" \in succeeded)

\* C5 witness: os.Open failed after a successful build; the removal ran and
\* the directory that had been created is gone
C5_Witness ==
    /\ pc = "done"
    /\ result = ErrOpen
    /\ "compile" \in succeeded
    /\ removeAll = "ok"
    /\ tdir = "removed"

\* C6: a parseable tree that has a main package but no file whose doc
\* mentions the name as a whole word: strict analysis returns the
\* missing-mention error (also when the import is missing too), relaxed
\* analysis of the same tree returns nil
C6_MissingDocMention ==
    ( /\ tree.syntaxErr = "none"
      /\ tree.hasMain
      /\ lambdaName # <<>>
      /\ \A f \in tree.files :
            f.doc = NoDoc \/ ~NameRegexMatch(lambdaName, f.doc[1]) ) =>
        /\ strictRes \in {"pending", ErrNoDoc}
        /\ relaxedRes \in {"pending", "nil"}

\* C6 witness: both analyses done on a tree whose only doc holds the name
\* inside a longer word and which also lacks the import
C6_Witness ==
    /\ strictRes = ErrNoDoc
    /\ relaxedRes = "nil"
    /\ lambdaName = <<"a">>
    /\ \E f \in tree.files : f.doc = << <<"a", "a">> >>
    /\ \A f \in tree.files : awsDependency \notin f.imports

\* s is what follows the last colon of n (all of n when n has no colon)
IsAfterLastColon(n, s) ==
    \E k \in 0..Len(n) :
        /\ s = SubSeq(n, k + 1, Len(n))
        /\ \A i \in 1..Len(s) : s[i] # ":"
        /\ k = 0 \/ n[k] = ":"

\* C7: the short name given to the analyzer is what follows the last colon
\* of the identifier (the identifier itself when it has no colon); the
\* identifier given to the read and the write API is the input unmodified
C7_ShortName ==
    /\ \A i \in 1..Len(shortName) : IsAfterLastColon(name, shortName[i])
    /\ \A i \in 1..Len(checkCalls) : IsAfterLastColon(name, checkCalls[i])
    /\ \A i \in 1..Len(fetchCalls) : fetchCalls[i] = name
    /\ \A i \in 1..Len(updateCalls) : updateCalls[i].FunctionName = name

\* C7 witness: an identifier with two colons went through the analyzer, the
\* read API and the write API
C7_Witness ==
    /\ name = <<":", ":", "a">>
    /\ checkCalls = << <<"a">> >>
    /\ fetchCalls = <<name>>
    /\ Len(updateCalls) = 1

\* C8: each wait for the remote service runs under a deadline, the fetch as
\* well as the update, so that the deadline ends a wait the service never
\* answers
C8_RemoteWaitsBounded ==
    /\ pc = "fetchWait" => deadline # "none"
    /\ pc = "updateWait" => deadline # "none" /\ ENABLED UpdateTimeout

\* C9 as stated: go1.x with a single architecture other than x86_64 fails
\* with the unsupported-architecture error whatever the handler is
C9_ArchErrorRegardlessOfHandler ==
    ( /\ SingleArchZip
      /\ cfgOutput.Runtime = RuntimeGo1x
      /\ cfgOutput.Architectures[1] # ArchitectureX8664 ) =>
        /\ Rejected
        /\ result = ErrGo1xArch

\* C9 amended: go1.x with a single architecture other than x86_64 fails
\* without building: with the unsupported-architecture error when the
\* handler is set and non-empty, with the empty-handler error when it is nil
\* or empty
C9_HandlerTestedFirst ==
    ( /\ SingleArchZip
      /\ cfgOutput.Runtime = RuntimeGo1x
      /\ cfgOutput.Architectures[1] # ArchitectureX8664 ) =>
        /\ Rejected
        /\ result = IF HandlerEmpty THEN ErrNoHandler ELSE ErrGo1xArch

\* C9 witness: go1.x on arm64 with an empty handler has been rejected
C9_Witness ==
    /\ SingleArchZip
    /\ cfgOutput.Runtime = RuntimeGo1x
    /\ cfgOutput.Architectures = <<ArchitectureArm64>>
    /\ cfgOutput.Handler = <<"">>
    /\ result = ErrNoHandler

\* C10: run never panics; the empty identifier yields "name must be set";
\* checkMainPackage is never called with an empty short name
C10_NeverPanics ==
    /\ pc # "panicked"
    /\ (name = <<>> /\ pc = "done") => result = ErrNameEmpty
    /\ \A i \in 1..Len(checkCalls) : checkCalls[i] # <<>>

====
